---- MODULE Spec2Model ----
(***************************************************************************)
(* Chunk generation pipeline of src/src/chunk.rs: the ChunkManager         *)
(* (dispatch / update / PendingWork::kill), the worker loop of             *)
(* ChunkWorker::new and ChunkExecutor::execute, over the mpsc channels     *)
(* that connect them; and the meshing of a chunk: make_mesh, get_sides     *)
(* and the VoxelMeshBuilder.                                               *)
(***************************************************************************)
EXTENDS Integers, Sequences, FiniteSets, TLC

\* ---------------------------------------------------------------- bounds
\* number of dispatch calls explored
MaxDispatch == 2
\* largest pool size explored (ChunkManager::new builds a pool of PoolSize)
MaxWorkers == 2
\* number of cancellation signals buffered on one killer channel
MaxKill == 1
\* edge of a chunk in voxels (32 in chunk.rs:142), scaled down
CHUNK_SIZE == 2
\* columns whose stone height differs from the rest of the terrain
MaxBumps == 1
\* quads after which generate_voxel is no longer called
MaxQuads == 2

\* ------------------------------------------------------- program constants
\* first Chunk Id (chunk.rs:39)
FirstIdx == 1
\* pool size passed to Pool::new (chunk.rs:43)
PoolSize == 1

\* the world positions handed to dispatch
Positions == {"a", "b"}
\* the chunk coordinate handed to dispatch
ChunkLocations == {0}

VARIABLES
  mgr,          \* lifetime of the ChunkManager: "alive", the steps of its drop, "panicked"
  current_idx,  \* ChunkManager.current_idx
  pending,      \* ChunkManager.pending : idx -> PendingWork
  receiver,     \* result channel (ChunkManager.sender / .receiver): buffered MeshReferences
  queue,        \* job channel of the pool: buffered ChunkWork
  channels,     \* cancellation channels, in creation order: [msgs, tx, rx]
  world,        \* entities pushed into the legion World
  size,         \* number of workers of the pool
  lock,         \* holder of the Mutex around the job receiver, 0 when free
  poisoned,     \* the Mutex was poisoned by a panic under the guard
  pc,           \* position of each worker thread in its loop
  work,         \* ChunkWork held by each worker
  \* history
  dispatched,   \* the dispatch calls so far: [idx, position, chunk_location]
  sent,         \* idx of every MeshReference sent on the result channel, in order
  dequeued,     \* idx of every ChunkWork a worker received, in order
  killed,       \* ids on which kill was called
  killed_queued,\* ids on which kill was called while their ChunkWork was still queued
  observed,     \* outcome of every cancellation check so far: [idx, outcome]
  left_waiting, \* some update drained a result and left others on the channel
  \* make_mesh, get_sides and the VoxelMeshBuilder
  step,         \* how far the meshing function under study has run
  stone_height, \* the stone height the noise gave for each column, in half units
  height_map,   \* the occupancy grid height_map[x][y][z]
  pos,          \* the voxel position handed to get_sides
  sides,        \* the Sides get_sides returned
  builder,      \* the VoxelMeshBuilder
  mesh          \* the MeshReference built

meshvars == <<step, stone_height, height_map, pos, sides, builder, mesh>>

vars == <<mgr, current_idx, pending, receiver, queue, channels, world, size, lock,
          poisoned, pc, work, dispatched, sent, dequeued, killed, killed_queued,
          observed, left_waiting, meshvars>>

\* the variables of the pipeline
pipevars == <<mgr, current_idx, pending, receiver, queue, channels, world, size, lock,
              poisoned, pc, work, dispatched, sent, dequeued, killed, killed_queued,
              observed, left_waiting>>

NoWork == [idx |-> 0, position |-> 0, receiver |-> 0]
Free == 0
EmptyMap == [i \in {} |-> 0]

Range(s) == {s[k] : k \in 1..Len(s)}

\* ------------------------------------------------------------ mpsc channels
\* std::sync::mpsc::Sender::send: buffers the value while the receiver lives,
\* fails (value discarded) once the receiver was dropped
ChanSend(ch, v) ==
  IF ch.rx THEN [ch EXCEPT !.msgs = Append(@, v)] ELSE ch

\* std::sync::mpsc::Receiver::try_recv: buffered values first, then
\* Disconnected when every sender was dropped, Empty otherwise
TryRecv(ch) ==
  IF ch.msgs # <<>> THEN [tag |-> "Ok", val |-> Head(ch.msgs)]
  ELSE IF ~ch.tx THEN [tag |-> "Disconnected", val |-> FALSE]
  ELSE [tag |-> "Empty", val |-> FALSE]

\* the channel after try_recv took its value, if any
AfterTryRecv(ch) ==
  IF ch.msgs # <<>> THEN [ch EXCEPT !.msgs = Tail(@)] ELSE ch

DropTx(ch) == [ch EXCEPT !.tx = FALSE]
DropRx(ch) == [ch EXCEPT !.rx = FALSE, !.msgs = <<>>]

\* ------------------------------------------------------------ ChunkManager
\* mutation of NextIdx: the counter is not advanced
NextIdxStuck(i) == i

\* self.current_idx += 1; current_idx is a u32 and MaxDispatch keeps it far
\* below 2^32, where the addition would overflow
NextIdx(i) == i + 1

\* mutation of PendingInsert: the entry is keyed by the already advanced counter
PendingInsertAfterIncrement(p, idx, pw) ==
  [k \in DOMAIN p \cup {idx + 1} |-> IF k = idx + 1 THEN pw ELSE p[k]]

\* mutation of PendingInsert: the entry is not recorded
PendingInsertNone(p, idx, pw) == p

\* self.pending.insert(idx, pending_work)
PendingInsert(p, idx, pw) ==
  [k \in DOMAIN p \cup {idx} |-> IF k = idx THEN pw ELSE p[k]]

\* mutation of PendingRemove: the whole map is cleared
PendingRemoveAll(p, idx) == [k \in {} |-> p[k]]

\* self.pending.remove(&idx)
PendingRemove(p, idx) == [k \in DOMAIN p \ {idx} |-> p[k]]

\* mutation of PendingFor: results are paired with the oldest pending entry
PendingForOldest(p, chunk) ==
  p[CHOOSE k \in DOMAIN p : \A j \in DOMAIN p : k <= j]

\* the PendingWork that update pairs with a received chunk
PendingFor(p, chunk) == p[chunk.idx]

\* the entity update pushes: a zero-rotation Transform at the recorded position
Entity(pw, chunk) ==
  [position |-> pw.position, rotation |-> <<0, 0, 0>>, chunk |-> chunk]

\* self.pool.dispatch(work): the pool queues the work on its job channel
PoolDispatch(q, wk) == Append(q, wk)

\* the MeshReference execute builds: tagged with the idx of the work
MeshOf(data) == [idx |-> data.idx, chunk_location |-> data.position]

ResultReceiverAlive == mgr \in {"alive", "panicked"}
JobSenderAlive == mgr \in {"alive", "panicked", "drop_pool"}

Workers == 1..size

\* no meshing function is under study
MeshIdle ==
  /\ step = "idle"
  /\ stone_height = <<>>
  /\ height_map = <<>>
  /\ pos = <<0, 0, 0>>
  /\ sides = 0
  /\ builder = <<>>
  /\ mesh = <<>>

Init ==
  /\ mgr = "alive"
  /\ current_idx = FirstIdx
  /\ pending = EmptyMap
  /\ receiver = <<>>
  /\ queue = <<>>
  /\ channels = <<>>
  /\ world = <<>>
  /\ size \in PoolSize..MaxWorkers
  /\ lock = Free
  /\ poisoned = FALSE
  /\ pc = [w \in 1..size |-> "lock"]
  /\ work = [w \in 1..size |-> NoWork]
  /\ dispatched = <<>>
  /\ sent = <<>>
  /\ dequeued = <<>>
  /\ killed = {}
  /\ killed_queued = {}
  /\ observed = {}
  /\ left_waiting = FALSE
  /\ MeshIdle

Dispatch(position, chunk_location) ==
  /\ mgr = "alive"
  /\ Len(dispatched) < MaxDispatch
  /\ LET c == Len(channels) + 1
         pending_work == [position |-> position, killer |-> c]
         wk == [idx |-> current_idx, position |-> chunk_location, receiver |-> c]
         \* insert drops the PendingWork it replaces, and with it its killer
         kept == IF current_idx \in DOMAIN pending
                 THEN [channels EXCEPT ![pending[current_idx].killer] = DropTx(@)]
                 ELSE channels
     IN /\ channels' = Append(kept, [msgs |-> <<>>, tx |-> TRUE, rx |-> TRUE])
        /\ pending' = PendingInsert(pending, current_idx, pending_work)
        /\ current_idx' = NextIdx(current_idx)
        /\ queue' = PoolDispatch(queue, wk)
        /\ dispatched' = Append(dispatched, [idx |-> current_idx, position |-> position,
                                             chunk_location |-> chunk_location])
  /\ UNCHANGED <<mgr, receiver, world, size, lock, poisoned, pc, work, sent, dequeued,
                 killed, killed_queued, observed, left_waiting>>
  /\ UNCHANGED meshvars

\* mutation of Update: a result without a pending entry is silently discarded
UpdateIgnoresUnknown ==
  /\ mgr = "alive"
  /\ IF receiver = <<>>
     THEN UNCHANGED <<mgr, receiver, pending, channels, world, left_waiting>>
     ELSE LET chunk == Head(receiver)
          IN /\ receiver' = Tail(receiver)
             /\ left_waiting' = (left_waiting \/ Tail(receiver) # <<>>)
             /\ IF chunk.idx \in DOMAIN pending
                THEN LET pw == PendingFor(pending, chunk)
                     IN /\ pending' = PendingRemove(pending, chunk.idx)
                        /\ world' = Append(world, Entity(pw, chunk))
                        \* the removed PendingWork is dropped at the end of update
                        /\ channels' = [c \in DOMAIN channels |->
                              IF \E k \in DOMAIN pending \ DOMAIN pending' :
                                    pending[k].killer = c
                              THEN DropTx(channels[c]) ELSE channels[c]]
                        /\ UNCHANGED mgr
                ELSE UNCHANGED <<mgr, pending, channels, world>>
  /\ UNCHANGED <<current_idx, queue, size, lock, poisoned, pc, work, dispatched, sent,
                 dequeued, killed, killed_queued, observed>>
  /\ UNCHANGED meshvars

\* update: one try_recv on the result channel
Update ==
  /\ mgr = "alive"
  /\ IF receiver = <<>>
     THEN UNCHANGED <<mgr, receiver, pending, channels, world, left_waiting>>
     ELSE LET chunk == Head(receiver)
          IN /\ receiver' = Tail(receiver)
             /\ left_waiting' = (left_waiting \/ Tail(receiver) # <<>>)
             /\ IF chunk.idx \in DOMAIN pending
                THEN LET pw == PendingFor(pending, chunk)
                     IN /\ pending' = PendingRemove(pending, chunk.idx)
                        /\ world' = Append(world, Entity(pw, chunk))
                        \* the removed PendingWork is dropped at the end of update
                        /\ channels' = [c \in DOMAIN channels |->
                              IF \E k \in DOMAIN pending \ DOMAIN pending' :
                                    pending[k].killer = c
                              THEN DropTx(channels[c]) ELSE channels[c]]
                        /\ UNCHANGED mgr
                ELSE \* unwrap on None panics
                     /\ mgr' = "panicked"
                     /\ UNCHANGED <<pending, channels, world>>
  /\ UNCHANGED <<current_idx, queue, size, lock, poisoned, pc, work, dispatched, sent,
                 dequeued, killed, killed_queued, observed>>
  /\ UNCHANGED meshvars

\* mutation of Kill: cancelling also removes the pending entry
KillRemoves(idx) ==
  /\ mgr = "alive"
  /\ idx \in DOMAIN pending
  /\ LET c == pending[idx].killer
     IN /\ Len(channels[c].msgs) < MaxKill
        /\ channels' = [channels EXCEPT ![c] = ChanSend(@, TRUE)]
        /\ killed_queued' = IF \E k \in 1..Len(queue) : queue[k].receiver = c
                            THEN killed_queued \cup {idx} ELSE killed_queued
  /\ killed' = killed \cup {idx}
  /\ pending' = PendingRemove(pending, idx)
  /\ UNCHANGED <<mgr, current_idx, receiver, queue, world, size, lock, poisoned,
                 pc, work, dispatched, sent, dequeued, observed, left_waiting>>
  /\ UNCHANGED meshvars

\* PendingWork::kill on the entry of idx: self.killer.send(true), result ignored
Kill(idx) ==
  /\ mgr = "alive"
  /\ idx \in DOMAIN pending
  /\ LET c == pending[idx].killer
     IN /\ Len(channels[c].msgs) < MaxKill
        /\ channels' = [channels EXCEPT ![c] = ChanSend(@, TRUE)]
        /\ killed_queued' = IF \E k \in 1..Len(queue) : queue[k].receiver = c
                            THEN killed_queued \cup {idx} ELSE killed_queued
  /\ killed' = killed \cup {idx}
  /\ UNCHANGED <<mgr, current_idx, pending, receiver, queue, world, size, lock, poisoned,
                 pc, work, dispatched, sent, dequeued, observed, left_waiting>>
  /\ UNCHANGED meshvars

\* ------------------------------------------------------------ worker loop
\* mutation of Skips: a disconnected cancellation channel lets the job run
SkipsSignalOnly(r) == r.tag = "Ok" /\ r.val = TRUE

\* mutation of Skips: a buffered cancellation signal is not honoured
SkipsDisconnectedOnly(r) == r.tag = "Disconnected"

\* mutation of Skips: the check skips whatever it finds
SkipsAlways(r) == TRUE

\* mutation of Skips: the check never skips
SkipsNever(r) == FALSE

\* the match on work.receiver.try_recv(): Ok(true) and Disconnected skip the job
Skips(r) ==
  \/ (r.tag = "Ok" /\ r.val = TRUE)
  \/ r.tag = "Disconnected"

\* mutation of AfterRecv: the received ChunkWork stays on the queue
AfterRecvKeeps(q) == q

\* the job queue after recv() handed its first ChunkWork to a worker
AfterRecv(q) == Tail(q)

\* receiver.lock(): blocks until the Mutex is free; unwrap panics when it is
\* poisoned. The threads blocked in lock() are in the same local state and
\* the loop never uses the worker's id, so the lowest-numbered of them stands
\* for whichever thread the Mutex admits
WLock(w) ==
  /\ pc[w] = "lock"
  /\ lock = Free
  /\ \A v \in Workers : pc[v] = "lock" => w <= v
  /\ IF poisoned
     THEN pc' = [pc EXCEPT ![w] = "dead"] /\ UNCHANGED lock
     ELSE pc' = [pc EXCEPT ![w] = "recv"] /\ lock' = w
  /\ UNCHANGED <<mgr, current_idx, pending, receiver, queue, channels, world, size,
                 poisoned, work, dispatched, sent, dequeued, killed, killed_queued,
                 observed, left_waiting>>
  /\ UNCHANGED meshvars

\* mutation of WRecv: the guard on the receiver is kept after the dequeue
WRecvKeepsLock(w) ==
  /\ pc[w] = "recv"
  /\ lock = w
  /\ IF queue # <<>>
     THEN /\ work' = [work EXCEPT ![w] = Head(queue)]
          /\ queue' = AfterRecv(queue)
          /\ dequeued' = Append(dequeued, Head(queue).idx)
          /\ pc' = [pc EXCEPT ![w] = "check"]
          /\ UNCHANGED <<poisoned, lock>>
     ELSE /\ ~JobSenderAlive
          /\ poisoned' = TRUE
          /\ pc' = [pc EXCEPT ![w] = "dead"]
          /\ lock' = Free
          /\ UNCHANGED <<work, queue, dequeued>>
  /\ UNCHANGED <<mgr, current_idx, pending, receiver, channels, world, size, dispatched,
                 sent, killed, killed_queued, observed, left_waiting>>
  /\ UNCHANGED meshvars

\* mutation of WRecv: the newest queued ChunkWork is taken first
WRecvNewest(w) ==
  /\ pc[w] = "recv"
  /\ lock = w
  /\ IF queue # <<>>
     THEN /\ work' = [work EXCEPT ![w] = queue[Len(queue)]]
          /\ queue' = SubSeq(queue, 1, Len(queue) - 1)
          /\ dequeued' = Append(dequeued, queue[Len(queue)].idx)
          /\ pc' = [pc EXCEPT ![w] = "check"]
          /\ UNCHANGED poisoned
     ELSE /\ ~JobSenderAlive
          /\ poisoned' = TRUE
          /\ pc' = [pc EXCEPT ![w] = "dead"]
          /\ UNCHANGED <<work, queue, dequeued>>
  /\ lock' = Free
  /\ UNCHANGED <<mgr, current_idx, pending, receiver, channels, world, size, dispatched,
                 sent, killed, killed_queued, observed, left_waiting>>
  /\ UNCHANGED meshvars

\* .recv().unwrap() under the guard: takes the first queued ChunkWork and
\* releases the Mutex; panics (poisoning the Mutex) when the queue is empty
\* and the pool's sender is gone
WRecv(w) ==
  /\ pc[w] = "recv"
  /\ lock = w
  /\ IF queue # <<>>
     THEN /\ work' = [work EXCEPT ![w] = Head(queue)]
          /\ queue' = AfterRecv(queue)
          /\ dequeued' = Append(dequeued, Head(queue).idx)
          /\ pc' = [pc EXCEPT ![w] = "check"]
          /\ UNCHANGED poisoned
     ELSE /\ ~JobSenderAlive
          /\ poisoned' = TRUE
          /\ pc' = [pc EXCEPT ![w] = "dead"]
          /\ UNCHANGED <<work, queue, dequeued>>
  /\ lock' = Free
  /\ UNCHANGED <<mgr, current_idx, pending, receiver, channels, world, size, dispatched,
                 sent, killed, killed_queued, observed, left_waiting>>
  /\ UNCHANGED meshvars

\* the cancellation check: one try_recv on the work's receiver; a skipped
\* work is dropped and the loop continues
WCheck(w) ==
  /\ pc[w] = "check"
  /\ LET c == work[w].receiver
         r == TryRecv(channels[c])
     IN /\ observed' = observed \cup {[idx |-> work[w].idx, outcome |-> r.tag]}
        /\ IF Skips(r)
           THEN /\ channels' = [channels EXCEPT ![c] = DropRx(@)]
                /\ work' = [work EXCEPT ![w] = NoWork]
                /\ pc' = [pc EXCEPT ![w] = "lock"]
           ELSE /\ channels' = [channels EXCEPT ![c] = AfterTryRecv(@)]
                /\ pc' = [pc EXCEPT ![w] = "execute"]
                /\ UNCHANGED work
  /\ UNCHANGED <<mgr, current_idx, pending, receiver, queue, world, size, lock, poisoned,
                 dispatched, sent, dequeued, killed, killed_queued, left_waiting>>
  /\ UNCHANGED meshvars

\* mutation of WExecute: the mesh is built but never sent
WExecuteNoSend(w) ==
  /\ pc[w] = "execute"
  /\ pc' = [pc EXCEPT ![w] = "lock"]
  /\ channels' = [channels EXCEPT ![work[w].receiver] = DropRx(@)]
  /\ work' = [work EXCEPT ![w] = NoWork]
  /\ UNCHANGED <<mgr, current_idx, pending, receiver, queue, world, size, lock, poisoned,
                 dispatched, sent, dequeued, killed, killed_queued, observed, left_waiting>>
  /\ UNCHANGED meshvars

\* exector.execute(work): build the mesh, send it on the result channel
\* (unwrap panics when the manager's receiver is gone), drop the work
WExecute(w) ==
  /\ pc[w] = "execute"
  /\ IF ResultReceiverAlive
     THEN /\ receiver' = Append(receiver, MeshOf(work[w]))
          /\ sent' = Append(sent, work[w].idx)
          /\ pc' = [pc EXCEPT ![w] = "lock"]
     ELSE /\ pc' = [pc EXCEPT ![w] = "dead"]
          /\ UNCHANGED <<receiver, sent>>
  /\ channels' = [channels EXCEPT ![work[w].receiver] = DropRx(@)]
  /\ work' = [work EXCEPT ![w] = NoWork]
  /\ UNCHANGED <<mgr, current_idx, pending, queue, world, size, lock, poisoned,
                 dispatched, dequeued, killed, killed_queued, observed, left_waiting>>
  /\ UNCHANGED meshvars

\* ------------------------------------------------- drop of the ChunkManager
\* fields drop in declaration order: receiver and sender, pool, pending
DropReceiver ==
  /\ mgr = "alive"
  /\ mgr' = "drop_pool"
  /\ receiver' = <<>>
  /\ UNCHANGED <<current_idx, pending, queue, channels, world, size, lock, poisoned, pc,
                 work, dispatched, sent, dequeued, killed, killed_queued, observed, left_waiting>>
  /\ UNCHANGED meshvars

\* the pool's job sender goes away; the worker threads are detached
DropPool ==
  /\ mgr = "drop_pool"
  /\ mgr' = "drop_pending"
  /\ UNCHANGED <<current_idx, pending, receiver, queue, channels, world, size, lock,
                 poisoned, pc, work, dispatched, sent, dequeued, killed, killed_queued,
                 observed, left_waiting>>
  /\ UNCHANGED meshvars

\* every PendingWork is dropped, and its killer with it
DropPending ==
  /\ mgr = "drop_pending"
  /\ mgr' = "dropped"
  /\ channels' = [c \in DOMAIN channels |->
        IF \E k \in DOMAIN pending : pending[k].killer = c
        THEN DropTx(channels[c]) ELSE channels[c]]
  /\ pending' = EmptyMap
  /\ UNCHANGED <<current_idx, receiver, queue, world, size, lock, poisoned, pc, work,
                 dispatched, sent, dequeued, killed, killed_queued, observed, left_waiting>>
  /\ UNCHANGED meshvars

\* ------------------------------------------------------------ specification
Next ==
  \/ \E position \in Positions, chunk_location \in ChunkLocations :
        Dispatch(position, chunk_location)
  \/ Update
  \/ \E idx \in DOMAIN pending : Kill(idx)
  \/ \E w \in Workers : WLock(w)
  \/ \E w \in Workers : WRecv(w)
  \/ \E w \in Workers : WCheck(w)
  \/ \E w \in Workers : WExecute(w)
  \/ DropReceiver
  \/ DropPool
  \/ DropPending

Spec == Init /\ [][Next]_vars

Ids == FirstIdx..(FirstIdx + MaxDispatch - 1)

\* the steps of one worker thread
Worker(w) ==
  /\ w \in Workers
  /\ (WLock(w) \/ WRecv(w) \/ WCheck(w) \/ WExecute(w))

\* the manager stays alive and every worker thread keeps being scheduled
NextAlive ==
  \/ \E position \in Positions, chunk_location \in ChunkLocations :
        Dispatch(position, chunk_location)
  \/ Update
  \/ \E idx \in DOMAIN pending : Kill(idx)
  \/ \E w \in Workers : WLock(w)
  \/ \E w \in Workers : WRecv(w)
  \/ \E w \in Workers : WCheck(w)
  \/ \E w \in Workers : WExecute(w)

\* update applied to any manager state: every pending map over the ids and
\* every content of the result channel
InitUpdate ==
  /\ mgr = "alive"
  /\ current_idx = FirstIdx + MaxDispatch
  /\ \E S \in SUBSET Ids : \E f \in [S -> Positions] :
        /\ pending = [i \in S |-> [position |-> f[i], killer |-> i - FirstIdx + 1]]
        /\ channels = [c \in 1..MaxDispatch |->
                         [msgs |-> <<>>, tx |-> (c + FirstIdx - 1 \in S), rx |-> FALSE]]
  /\ \E n \in 0..MaxDispatch : \E r \in [1..n -> Ids] :
        receiver = [k \in 1..n |-> MeshOf([idx |-> r[k], position |-> 0])]
  /\ queue = <<>>
  /\ world = <<>>
  /\ size = PoolSize
  /\ lock = Free
  /\ poisoned = FALSE
  /\ pc = [w \in 1..size |-> "lock"]
  /\ work = [w \in 1..size |-> NoWork]
  /\ dispatched = <<>>
  /\ sent = <<>>
  /\ dequeued = <<>>
  /\ killed = {}
  /\ killed_queued = {}
  /\ observed = {}
  /\ left_waiting = FALSE
  /\ MeshIdle

NextUpdate == Update

SpecUpdate == InitUpdate /\ [][NextUpdate]_vars

LiveSpec ==
  /\ Init
  /\ [][NextAlive]_vars
  /\ \A w \in 1..MaxWorkers : WF_vars(Worker(w))

\* ------------------------------------------------------------- meshing
\* Sides (bitflags over u32): a set of directions is the sum of its flags
NONE == 0
TOP == 1
BOTTOM == 2
LEFT == 4
RIGHT == 8
FORWARD == 16
BACKWARD == 32

AllSides == {TOP, BOTTOM, LEFT, RIGHT, FORWARD, BACKWARD}

\* Sides::contains for a single flag
Contains(s, side) == (s \div side) % 2 = 1

\* sides |= side
Insert(s, side) == IF Contains(s, side) THEN s ELSE s + side

\* every value of Sides
SidesValues == 0..(TOP + BOTTOM + LEFT + RIGHT + FORWARD + BACKWARD)

\* corners of the unit cube, in half units
CUBE_COORDINATES ==
  << <<-1, -1, 1>>, <<1, -1, 1>>, <<1, -1, -1>>, <<-1, -1, -1>>,
     <<-1, 1, 1>>, <<1, 1, 1>>, <<1, 1, -1>>, <<-1, 1, -1>> >>

\* texture coordinates, in sixteenths
UVS == << <<2, 1>>, <<3, 1>>, <<2, 0>>, <<3, 0>> >>

QUAD_UV_ORDER == <<3, 2, 0, 1>>

SIDE_VERTICES ==
  << <<TOP, <<7, 6, 5, 4>> >>, <<BOTTOM, <<0, 1, 2, 3>> >>,
     <<LEFT, <<7, 4, 0, 3>> >>, <<RIGHT, <<5, 6, 2, 1>> >>,
     <<FORWARD, <<4, 5, 1, 0>> >>, <<BACKWARD, <<6, 7, 3, 2>> >> >>

\* the indices of one quad, before the offset is added
QuadIndices == <<3, 1, 0, 3, 2, 1>>

\* indices of the padded grid along one axis, and of its interior
Padded == 0..(CHUNK_SIZE + 1)
Interior == 1..CHUNK_SIZE

\* stone heights the noise can give, in half units: from below 0 to above
\* the padded grid, whole and fractional
StoneHeights == (-1)..(2 * CHUNK_SIZE + 3)

\* `stone_height as usize`: a float to unsigned cast truncates toward zero
\* and saturates, so every negative height becomes 0
AsUsize(h) == IF h <= 0 THEN 0 ELSE h \div 2

\* the inner loop as `for y in 1..CHUNK_SIZE`
ColumnCellsFromOne(h) ==
  [y \in Padded |-> IF y \in 1..(CHUNK_SIZE - 1) THEN y < AsUsize(h) ELSE FALSE]

\* the inner loop as `for y in 0..CHUNK_SIZE + 2`
ColumnCellsAllLayers(h) == [y \in Padded |-> y < AsUsize(h)]

\* the inner loop `for y in 0..CHUNK_SIZE` over one column of the grid that
\* vec![...false...] created: the layers from CHUNK_SIZE up are never written
ColumnCells(h) ==
  [y \in Padded |-> IF y \in 0..(CHUNK_SIZE - 1) THEN y < AsUsize(h) ELSE FALSE]

\* the grid the loops over x and z build from the stone height of each column
HeightMapOf(sh) ==
  [x \in Padded |-> [y \in Padded |-> [z \in Padded |-> ColumnCells(sh[x][z])[y]]]]

\* get_sides looking to the right for LEFT and to the left for RIGHT
get_sides_mirrored(hm, p) ==
  LET x == p[1]
      y == p[2]
      z == p[3]
      s1 == IF ~hm[x + 1][y][z] THEN Insert(NONE, LEFT) ELSE NONE
      s2 == IF ~hm[x - 1][y][z] THEN Insert(s1, RIGHT) ELSE s1
      s3 == IF y > 0 /\ ~hm[x][y - 1][z] THEN Insert(s2, BOTTOM) ELSE s2
      s4 == IF ~hm[x][y + 1][z] THEN Insert(s3, TOP) ELSE s3
      s5 == IF ~hm[x][y][z - 1] THEN Insert(s4, BACKWARD) ELSE s4
      s6 == IF ~hm[x][y][z + 1] THEN Insert(s5, FORWARD) ELSE s5
  IN s6

get_sides(hm, p) ==
  LET x == p[1]
      y == p[2]
      z == p[3]
      s1 == IF ~hm[x - 1][y][z] THEN Insert(NONE, LEFT) ELSE NONE
      s2 == IF ~hm[x + 1][y][z] THEN Insert(s1, RIGHT) ELSE s1
      s3 == IF y > 0 /\ ~hm[x][y - 1][z] THEN Insert(s2, BOTTOM) ELSE s2
      s4 == IF ~hm[x][y + 1][z] THEN Insert(s3, TOP) ELSE s3
      s5 == IF ~hm[x][y][z - 1] THEN Insert(s4, BACKWARD) ELSE s4
      s6 == IF ~hm[x][y][z + 1] THEN Insert(s5, FORWARD) ELSE s5
  IN s6

\* VoxelMeshBuilder::new
NewBuilder ==
  [current_cube_pos |-> <<0, 0, 0>>, indices |-> <<>>, vertices |-> <<>>,
   index_offset |-> 0]

set_position(b, position) == [b EXCEPT !.current_cube_pos = position]

\* one MeshVertex of a quad: corner `vertex` of the cube at the cursor
MeshVertex(b, vertex, uv) ==
  [position |-> [a \in 1..3 |->
                   CUBE_COORDINATES[vertex + 1][a] + 2 * b.current_cube_pos[a]],
   tex_coords |-> UVS[uv + 1],
   normal |-> <<0, 1, 0>>]

Min(a, c) == IF a < c THEN a ELSE c

\* build_quad that does not add index_offset to the indices
build_quad_no_offset(b, vertex_idx) ==
  [b EXCEPT
     !.vertices = @ \o [k \in 1..Min(Len(vertex_idx), Len(QUAD_UV_ORDER)) |->
                          MeshVertex(b, vertex_idx[k], QUAD_UV_ORDER[k])],
     !.indices = @ \o QuadIndices,
     !.index_offset = @ + 4]

build_quad(b, vertex_idx) ==
  [b EXCEPT
     !.vertices = @ \o [k \in 1..Min(Len(vertex_idx), Len(QUAD_UV_ORDER)) |->
                          MeshVertex(b, vertex_idx[k], QUAD_UV_ORDER[k])],
     !.indices = @ \o [k \in 1..Len(QuadIndices) |-> QuadIndices[k] + b.index_offset],
     !.index_offset = @ + 4]

\* the loop of generate_voxel from entry i of SIDE_VERTICES on
RECURSIVE GenerateFrom(_, _, _)
GenerateFrom(b, s, i) ==
  IF i > Len(SIDE_VERTICES) THEN b
  ELSE GenerateFrom(IF Contains(s, SIDE_VERTICES[i][1])
                      THEN build_quad(b, SIDE_VERTICES[i][2]) ELSE b,
                    s, i + 1)

\* generate_voxel starting after the first entry of SIDE_VERTICES
generate_voxel_skip_first(b, s) == GenerateFrom(b, s, 2)

generate_voxel(b, s) == GenerateFrom(b, s, 1)

build(b, idx) ==
  [idx |-> idx, vertex_data |-> b.vertices, index_data |-> b.indices]

\* the k-th position (from 0) of the loops over x, y and z in 1..CHUNK_SIZE
LoopPos(k) ==
  <<1 + (k \div (CHUNK_SIZE * CHUNK_SIZE)), 1 + ((k \div CHUNK_SIZE) % CHUNK_SIZE),
    1 + (k % CHUNK_SIZE)>>

\* the meshing loops of make_mesh from position k up to position last
RECURSIVE MeshFrom(_, _, _, _)
MeshFrom(b, hm, k, last) ==
  IF k >= last THEN b
  ELSE LET p == LoopPos(k)
       IN MeshFrom(IF hm[p[1]][p[2]][p[3]]
                     THEN generate_voxel(set_position(b, p), get_sides(hm, p))
                     ELSE b,
                   hm, k + 1, last)

\* the pipeline at rest while a meshing function is studied on its own
PipeIdle ==
  /\ mgr = "alive"
  /\ current_idx = FirstIdx
  /\ pending = EmptyMap
  /\ receiver = <<>>
  /\ queue = <<>>
  /\ channels = <<>>
  /\ world = <<>>
  /\ size = PoolSize
  /\ lock = Free
  /\ poisoned = FALSE
  /\ pc = [w \in 1..size |-> "lock"]
  /\ work = [w \in 1..size |-> NoWork]
  /\ dispatched = <<>>
  /\ sent = <<>>
  /\ dequeued = <<>>
  /\ killed = {}
  /\ killed_queued = {}
  /\ observed = {}
  /\ left_waiting = FALSE

\* columns of the padded grid
Columns == Padded \X Padded
NoColumn == <<>>

\* a terrain flat at height base except for the columns in bumps, at bump
Terrain(base, bump, bumps) ==
  [x \in Padded |-> [z \in Padded |-> IF <<x, z>> \in bumps THEN bump ELSE base]]

\* one stone height for each number of layers a column can fill: the grid
\* depends on a height only through `stone_height as usize`
MeshHeights == {2 * t + 1 : t \in 0..CHUNK_SIZE}

\* make_mesh(idx, chunk_location): the noise is given by the stone height of
\* each column; the terrains explored are flat at one height except for at
\* most MaxBumps columns at another height
InitMesh ==
  /\ PipeIdle
  /\ step = "input"
  /\ \E base \in MeshHeights, bump \in MeshHeights :
       \E f \in [1..MaxBumps -> Columns \cup {NoColumn}] :
          stone_height = Terrain(base, bump, Range(f))
  /\ height_map = <<>>
  /\ pos = <<0, 0, 0>>
  /\ sides = NONE
  /\ builder = NewBuilder
  /\ mesh = <<>>

\* the grid loops of make_mesh on their own: any stone height, whole or
\* fractional, below 0 or above the grid, in one column of a terrain flat
\* at any other height
InitFill ==
  /\ PipeIdle
  /\ step = "input"
  /\ \E base \in StoneHeights, bump \in StoneHeights, c \in Columns :
        stone_height = Terrain(base, bump, {c})
  /\ height_map = <<>>
  /\ pos = <<0, 0, 0>>
  /\ sides = NONE
  /\ builder = NewBuilder
  /\ mesh = <<>>

\* the first loops of make_mesh: the occupancy grid
FillHeightMap ==
  /\ step = "input"
  /\ height_map' = HeightMapOf(stone_height)
  /\ step' = "meshing"
  /\ pos' = <<1, 1, 1>>
  /\ UNCHANGED <<stone_height, sides, builder, mesh>>
  /\ UNCHANGED pipevars

\* one iteration of `for x in 1..CHUNK_SIZE + 1`: the loops over y and z
MeshSlice ==
  /\ step = "meshing"
  /\ pos[1] <= CHUNK_SIZE
  /\ builder' = MeshFrom(builder, height_map,
                         (pos[1] - 1) * CHUNK_SIZE * CHUNK_SIZE,
                         pos[1] * CHUNK_SIZE * CHUNK_SIZE)
  /\ pos' = <<pos[1] + 1, 1, 1>>
  /\ UNCHANGED <<step, stone_height, height_map, sides, mesh>>
  /\ UNCHANGED pipevars

\* builder.build(idx) once the loops are over
BuildMesh ==
  /\ step = "meshing"
  /\ pos[1] > CHUNK_SIZE
  /\ mesh' = build(builder, FirstIdx)
  /\ step' = "done"
  /\ UNCHANGED <<stone_height, height_map, pos, sides, builder>>
  /\ UNCHANGED pipevars

NextMesh == FillHeightMap \/ MeshSlice \/ BuildMesh

SpecMesh == InitMesh /\ [][NextMesh]_vars

NextFill == FillHeightMap

SpecFill == InitFill /\ [][NextFill]_vars

\* the six neighbours of a position, by the side that faces them
Neighbour(p, side) ==
  CASE side = LEFT -> <<p[1] - 1, p[2], p[3]>>
    [] side = RIGHT -> <<p[1] + 1, p[2], p[3]>>
    [] side = BOTTOM -> <<p[1], p[2] - 1, p[3]>>
    [] side = TOP -> <<p[1], p[2] + 1, p[3]>>
    [] side = BACKWARD -> <<p[1], p[2], p[3] - 1>>
    [] side = FORWARD -> <<p[1], p[2], p[3] + 1>>

\* a padded grid in which the neighbours of p on the sides in occ are
\* occupied, its other neighbours are empty and every other cell is bg
GridAround(p, occ, bg) ==
  [x \in Padded |-> [y \in Padded |-> [z \in Padded |->
     IF \E side \in AllSides : Neighbour(p, side) = <<x, y, z>>
       THEN \E side \in occ : Neighbour(p, side) = <<x, y, z>>
       ELSE bg]]]

\* get_sides(height_map, pos) on its own: any occupancy of the neighbours of
\* a position of the interior columns, from the lowest layer up
InitSides ==
  /\ PipeIdle
  /\ step = "input"
  /\ stone_height = <<>>
  /\ pos \in Interior \X (0..CHUNK_SIZE) \X Interior
  /\ \E occ \in SUBSET AllSides, bg \in BOOLEAN :
        height_map = GridAround(pos, occ, bg)
  /\ sides = NONE
  /\ builder = <<>>
  /\ mesh = <<>>

GetSides ==
  /\ step = "input"
  /\ sides' = get_sides(height_map, pos)
  /\ step' = "done"
  /\ UNCHANGED <<stone_height, height_map, pos, builder, mesh>>
  /\ UNCHANGED pipevars

NextSides == GetSides

SpecSides == InitSides /\ [][NextSides]_vars

\* positions handed to set_position
BuilderPositions == {<<1, 1, 1>>, <<CHUNK_SIZE, 1, CHUNK_SIZE>>}

\* a VoxelMeshBuilder on its own, from VoxelMeshBuilder::new()
InitBuilder ==
  /\ PipeIdle
  /\ step = "building"
  /\ stone_height = <<>>
  /\ height_map = <<>>
  /\ pos = <<0, 0, 0>>
  /\ sides = NONE
  /\ builder = NewBuilder
  /\ mesh = <<>>

SetPosition(position) ==
  /\ step = "building"
  /\ builder' = set_position(builder, position)
  /\ UNCHANGED <<step, stone_height, height_map, pos, sides, mesh>>
  /\ UNCHANGED pipevars

GenerateVoxel(s) ==
  /\ step = "building"
  /\ builder.index_offset < 4 * MaxQuads
  /\ builder' = generate_voxel(builder, s)
  /\ sides' = s
  /\ UNCHANGED <<step, stone_height, height_map, pos, mesh>>
  /\ UNCHANGED pipevars

Build ==
  /\ step = "building"
  /\ mesh' = build(builder, FirstIdx)
  /\ step' = "done"
  /\ UNCHANGED <<stone_height, height_map, pos, sides, builder>>
  /\ UNCHANGED pipevars

NextBuilder ==
  \/ \E position \in BuilderPositions : SetPosition(position)
  \/ \E s \in SidesValues : GenerateVoxel(s)
  \/ Build

SpecBuilder == InitBuilder /\ [][NextBuilder]_vars

\* ------------------------------------------------------------ properties
DispatchedIds == {dispatched[k].idx : k \in 1..Len(dispatched)}
DrainedIds == {world[k].chunk.idx : k \in 1..Len(world)}
SentIds == Range(sent)
Count(s, x) == Cardinality({k \in 1..Len(s) : s[k] = x})

\* C1: while the manager's pending map exists, every dispatched Chunk Id whose
\* result update has not yet drained is a key of the pending map, with the
\* entry its dispatch recorded
PendingUntilDrained ==
  mgr # "dropped" =>
    \A k \in 1..Len(dispatched) :
      dispatched[k].idx \notin DrainedIds =>
        /\ dispatched[k].idx \in DOMAIN pending
        /\ pending[dispatched[k].idx].position = dispatched[k].position

\* C1 witness: a cancelled job was skipped by its worker and still has its
\* entry, while another job's result has been drained
PendingUntilDrainedWitness ==
  /\ mgr = "alive"
  /\ DrainedIds # {}
  /\ \E i \in killed :
       /\ [idx |-> i, outcome |-> "Ok"] \in observed
       /\ i \in DOMAIN pending

\* C2: the ids allocated by dispatch start at the initial counter value, are
\* strictly increasing in dispatch order (hence pairwise distinct, none
\* allocated twice), and every key of the pending map was allocated once
IdsDistinctIncreasing ==
  /\ Len(dispatched) > 0 => dispatched[1].idx = FirstIdx
  /\ \A j, k \in 1..Len(dispatched) : j < k => dispatched[j].idx < dispatched[k].idx
  /\ \A i \in DOMAIN pending :
       Cardinality({k \in 1..Len(dispatched) : dispatched[k].idx = i}) = 1
  /\ \A i \in DispatchedIds : i < current_idx

\* C2 witness: several dispatches happened and their entries are all pending
IdsDistinctIncreasingWitness ==
  /\ Len(dispatched) >= 2
  /\ Cardinality(DOMAIN pending) = Len(dispatched)

\* C3: a job whose cancellation was signalled while its ChunkWork was still
\* on the job queue never has a MeshReference sent on the result channel
KilledQueuedNeverSent ==
  \A i \in killed_queued : i \notin SentIds

\* C3 witness: such a job went through a worker's cancellation check
KilledQueuedNeverSentWitness ==
  \E i \in killed_queued : \E o \in observed : o.idx = i

\* C4: with the manager alive and the workers scheduled fairly, again and
\* again every job dispatched so far has been cancelled or has had its
\* MeshReference sent (so a dispatched job that is never cancelled is
\* eventually sent), and no id is ever sent more than once
ExactlyOneMeshSent ==
  /\ []<>(\A i \in DispatchedIds : i \in killed \/ i \in SentIds)
  /\ [](\A i \in Ids : Count(sent, i) <= 1)

\* C4 witness: every dispatched job was sent without ever being cancelled
ExactlyOneMeshSentWitness ==
  /\ Len(dispatched) >= 2
  /\ killed = {}
  /\ \A i \in DispatchedIds : Count(sent, i) = 1

\* C5: no step of the live manager removes more than one entry from the
\* pending map, pushes more than one entity into the world or takes more than
\* one result off the result channel, however many results are waiting; with
\* no result waiting, nothing is removed and nothing is pushed
UpdateDrainsAtMostOne ==
  [][/\ (mgr = "alive" /\ mgr' = "alive") =>
          /\ Cardinality(DOMAIN pending \ DOMAIN pending') <= 1
          /\ Len(world') <= Len(world) + 1
          /\ Len(receiver') >= Len(receiver) - 1
          /\ Len(world') - Len(world) = Cardinality(DOMAIN pending \ DOMAIN pending')
     /\ (mgr = "alive" /\ mgr' = "alive" /\ receiver = <<>>) =>
          /\ DOMAIN pending \subseteq DOMAIN pending'
          /\ world' = world]_vars

\* C5 witness: update drained one result while others were waiting, and
\* removed and pushed exactly one
UpdateDrainsAtMostOneWitness ==
  /\ mgr = "alive"
  /\ left_waiting
  /\ Len(world) = 1
  /\ receiver # <<>>
  /\ Cardinality(DOMAIN pending) = Len(dispatched) - 1

\* C6: every entity in the world pairs the MeshReference of id i with the
\* position given to the dispatch call that allocated i
EntityAtDispatchedPosition ==
  \A k \in 1..Len(world) :
    /\ \E j \in 1..Len(dispatched) : dispatched[j].idx = world[k].chunk.idx
    /\ \A j \in 1..Len(dispatched) :
         dispatched[j].idx = world[k].chunk.idx =>
           dispatched[j].position = world[k].position

\* C6 witness: results arrived against dispatch order, for jobs dispatched
\* at different positions
EntityAtDispatchedPositionWitness ==
  /\ Len(world) >= 2
  /\ world[1].chunk.idx > world[2].chunk.idx
  /\ world[1].position # world[2].position

\* C7: when update takes from the result channel a MeshReference whose id is
\* not a key of the pending map, it panics, pushes no entity and leaves the
\* pending map alone; it panics in no other case
UnknownResultPanics ==
  [][/\ (mgr = "alive" /\ receiver # <<>> /\ Head(receiver).idx \notin DOMAIN pending) =>
          /\ mgr' = "panicked"
          /\ world' = world
          /\ pending' = pending
     /\ mgr' = "panicked" =>
          (receiver # <<>> /\ Head(receiver).idx \notin DOMAIN pending)]_vars

\* C7 witness: update panicked on such a result after having drained another
UnknownResultPanicsWitness ==
  /\ mgr = "panicked"
  /\ Len(world) >= 1

\* C8 as stated: once kill was called on a job, its id is not a key of the
\* pending map
KilledNotPending ==
  mgr = "alive" => \A i \in killed : i \notin DOMAIN pending

\* C8 amended: kill leaves the pending map unchanged; an entry is created
\* only by dispatch and removed only when update drains the result with its
\* id (or when the manager is dropped)
KillKeepsPending ==
  [][/\ (\/ killed' # killed
         \/ \E c \in DOMAIN channels : Len(channels'[c].msgs) > Len(channels[c].msgs)) =>
          pending' = pending
     /\ \A i \in DOMAIN pending \ DOMAIN pending' :
          \/ mgr' = "dropped"
          \/ (receiver # <<>> /\ Head(receiver).idx = i /\ receiver' = Tail(receiver))
     /\ \A i \in DOMAIN pending' \ DOMAIN pending :
          (i = current_idx /\ Len(dispatched') = Len(dispatched) + 1)]_vars

\* C8 witness: a cancelled job was skipped and is gone from the pool, and its
\* entry is still in the pending map
KillKeepsPendingWitness ==
  /\ mgr = "alive"
  /\ queue = <<>>
  /\ \A w \in Workers : work[w] = NoWork
  /\ \E i \in killed : i \in DOMAIN pending /\ i \notin SentIds

\* C9: every ChunkWork submitted by dispatch is on the job queue or was
\* received by a worker, never both and never twice, and no two workers hold
\* the same ChunkWork
WorkDequeuedOnce ==
  /\ \A k \in 1..Len(dispatched) :
       Count(dequeued, dispatched[k].idx)
         + Cardinality({q \in 1..Len(queue) : queue[q].idx = dispatched[k].idx}) = 1
  /\ \A w \in Workers :
       work[w] # NoWork =>
         /\ Count(dequeued, work[w].idx) = 1
         /\ \A v \in Workers \ {w} : work[v] # work[w]

\* C9 witness: two workers of the pool hold a ChunkWork at the same time
WorkDequeuedOnceWitness ==
  \E w, v \in Workers : w # v /\ work[w] # NoWork /\ work[v] # NoWork

\* C10 as stated: a cancellation check that observes a disconnected channel
\* is followed by the execution of the job
DisconnectedExecutes ==
  [][\A w \in Workers :
       (/\ pc[w] = "check"
        /\ pc'[w] # "check"
        /\ TryRecv(channels[work[w].receiver]).tag = "Disconnected") =>
          pc'[w] = "execute"]_vars

\* C10 amended: a job whose cancellation check observed a disconnected
\* channel is skipped: its ChunkWork is dropped, no worker executes it and no
\* MeshReference is sent for it
DisconnectedSkipped ==
  \A o \in observed :
    o.outcome = "Disconnected" =>
      /\ o.idx \notin SentIds
      /\ \A w \in Workers : work[w].idx # o.idx

\* C10 witness: a cancellation check observed a disconnected channel
DisconnectedSkippedWitness ==
  \E o \in observed : o.outcome = "Disconnected"

\* positions of the interior of the grid, and those make_mesh finds occupied
InteriorPositions == Interior \X Interior \X Interior
Occupied(hm, p) == hm[p[1]][p[2]][p[3]]
OccupiedInterior == {p \in InteriorPositions : Occupied(height_map, p)}

\* number of sides in a Sides value
SideCount(s) == Cardinality({side \in AllSides : Contains(s, side)})

\* exposed faces of the grid: the (voxel, side) pairs that get_sides reports
\* over the occupied interior voxels
ExposedFaces ==
  Cardinality({f \in OccupiedInterior \X AllSides :
                 Contains(get_sides(height_map, f[1]), f[2])})

\* C11: the mesh returned by make_mesh has 4 vertices and 6 indices for each
\* exposed face of the grid, the exposed faces being counted over the
\* occupied interior voxels by the Side Set get_sides returns for each; so
\* the vertex count is a multiple of 4 and the index count a multiple of 6.
QuadPerExposedFace ==
  step = "done" =>
    /\ Len(mesh.vertex_data) = 4 * ExposedFaces
    /\ Len(mesh.index_data) = 6 * ExposedFaces
    /\ Len(mesh.vertex_data) % 4 = 0
    /\ Len(mesh.index_data) % 6 = 0

\* C11 witness: a mesh built over two occupied interior voxels that expose
\* different numbers of faces.
QuadPerExposedFaceWitness ==
  /\ step = "done"
  /\ \E p \in OccupiedInterior, q \in OccupiedInterior :
        SideCount(get_sides(height_map, p)) < SideCount(get_sides(height_map, q))
  /\ Len(mesh.vertex_data) > 0

\* whether p has a neighbour on a side (the lowest layer has none below)
HasNeighbour(p, side) == side = BOTTOM => p[2] > 0

\* C12: the Side Set get_sides returns holds a direction exactly when the
\* neighbour in that direction is unoccupied, BOTTOM also needing y > 0; it
\* is empty when all neighbours are occupied, and when all are empty it holds
\* the six sides, or the five other than BOTTOM on the lowest layer.
SidesAreEmptyNeighbours ==
  step = "done" =>
    /\ \A side \in AllSides :
          Contains(sides, side) <=>
            /\ HasNeighbour(pos, side)
            /\ ~Occupied(height_map, Neighbour(pos, side))
    /\ (\A side \in AllSides : HasNeighbour(pos, side) =>
            Occupied(height_map, Neighbour(pos, side))) => sides = NONE
    /\ (\A side \in AllSides : HasNeighbour(pos, side) =>
            ~Occupied(height_map, Neighbour(pos, side))) =>
          sides = IF pos[2] > 0
                    THEN TOP + BOTTOM + LEFT + RIGHT + FORWARD + BACKWARD
                    ELSE TOP + LEFT + RIGHT + FORWARD + BACKWARD

\* C12 witness: a voxel of the lowest layer with five empty neighbours was
\* given the five sides other than BOTTOM.
SidesAreEmptyNeighboursWitness ==
  /\ step = "done"
  /\ pos[2] = 0
  /\ \A side \in AllSides \ {BOTTOM} : ~Occupied(height_map, Neighbour(pos, side))
  /\ sides = TOP + LEFT + RIGHT + FORWARD + BACKWARD

\* C13 as stated: every cell of the padded grid, on every layer and for
\* every stone height, is occupied exactly when its layer is strictly below
\* the stone height of its column.
OccupiedBelowHeight ==
  step # "input" =>
    \A x \in Padded, y \in Padded, z \in Padded :
       height_map[x][y][z] <=> 2 * y < stone_height[x][z]

\* C13: a cell of the padded grid is occupied exactly when its layer is
\* below CHUNK_SIZE and a whole voxel fits under the stone height of its
\* column (y + 1 <= height, the height being truncated); the layers
\* CHUNK_SIZE and CHUNK_SIZE + 1 are never occupied.
OccupiedBelowTruncatedHeight ==
  step # "input" =>
    \A x \in Padded, y \in Padded, z \in Padded :
       /\ height_map[x][y][z] <=>
            (y < CHUNK_SIZE /\ 2 * (y + 1) <= stone_height[x][z])
       /\ y >= CHUNK_SIZE => ~height_map[x][y][z]

\* C13 witness: the grid was filled from a column above the padded grid,
\* whose top layers stayed empty, and from a column of negative height.
OccupiedBelowTruncatedHeightWitness ==
  /\ step # "input"
  /\ \E x \in Padded, z \in Padded :
        /\ stone_height[x][z] > 2 * (CHUNK_SIZE + 1)
        /\ height_map[x][CHUNK_SIZE - 1][z]
        /\ ~height_map[x][CHUNK_SIZE][z]
  /\ \E x \in Padded, z \in Padded :
        /\ stone_height[x][z] < 0
        /\ ~height_map[x][0][z]

\* quads the builder has produced, by the indices it holds
QuadsBuilt == Len(builder.indices) \div 6

\* C17: after any calls of set_position and generate_voxel the k-th quad
\* (from 0) has added the indices 4k+3, 4k+1, 4k, 4k+3, 4k+2, 4k+1 in this
\* order, index_offset is 4 times the number of quads, the quads index
\* disjoint ranges of vertices, and every index is below the vertex count,
\* in the builder and in the mesh it builds.
QuadIndicesInOrder ==
  step \in {"building", "done"} /\ builder # <<>> =>
    /\ Len(builder.indices) = 6 * QuadsBuilt
    /\ Len(builder.vertices) = 4 * QuadsBuilt
    /\ builder.index_offset = 4 * QuadsBuilt
    /\ \A k \in 0..(QuadsBuilt - 1) :
          SubSeq(builder.indices, 6 * k + 1, 6 * k + 6) =
            <<4 * k + 3, 4 * k + 1, 4 * k, 4 * k + 3, 4 * k + 2, 4 * k + 1>>
    /\ \A k \in 0..(QuadsBuilt - 1), j \in 0..(QuadsBuilt - 1) :
          k # j =>
            {builder.indices[6 * k + n] : n \in 1..6} \cap
            {builder.indices[6 * j + n] : n \in 1..6} = {}
    /\ \A n \in 1..Len(builder.indices) :
          builder.indices[n] \in 0..(Len(builder.vertices) - 1)
    /\ step = "done" =>
          /\ mesh.index_data = builder.indices
          /\ mesh.vertex_data = builder.vertices

\* C17 witness: a mesh was built from at least two quads that two calls of
\* generate_voxel added at two positions.
QuadIndicesInOrderWitness ==
  /\ step = "done"
  /\ builder # <<>>
  /\ Len(mesh.index_data) >= 12
  /\ \E n \in 1..Len(mesh.vertex_data), m \in 1..Len(mesh.vertex_data) :
        mesh.vertex_data[m].position[1] - mesh.vertex_data[n].position[1] > 2

\* the four vertices of the BOTTOM face of the voxel at p
BottomQuad(p) ==
  build_quad(set_position(NewBuilder, p), SIDE_VERTICES[2][2]).vertices

BottomQuads == {BottomQuad(p) : p \in InteriorPositions}

\* C19: the mesh make_mesh returns has no BOTTOM face: every occupied
\* interior voxel lies above layer 0 and has an occupied cell directly
\* below it, so get_sides gives BOTTOM to none of them and no quad of the
\* mesh is the BOTTOM face of a voxel.
NoBottomFace ==
  step = "done" /\ stone_height # <<>> =>
    /\ \A p \in OccupiedInterior :
          /\ p[2] > 0
          /\ Occupied(height_map, Neighbour(p, BOTTOM))
          /\ ~Contains(get_sides(height_map, p), BOTTOM)
    /\ \A k \in 0..((Len(mesh.vertex_data) \div 4) - 1) :
          SubSeq(mesh.vertex_data, 4 * k + 1, 4 * k + 4) \notin BottomQuads

\* C19 witness: a mesh of exactly the top and the four lateral faces of a
\* single occupied voxel.
NoBottomFaceWitness ==
  /\ step = "done"
  /\ stone_height # <<>>
  /\ Cardinality(OccupiedInterior) = 1
  /\ Len(mesh.vertex_data) = 20

\* the outcome of the cancellation check that a worker made for job i
Checked(i, outcome) == [idx |-> i, outcome |-> outcome] \in observed

\* job i was skipped by a worker's cancellation check
Skipped(i) == Checked(i, "Ok") \/ Checked(i, "Disconnected")

\* C14: a worker that dequeued a job checks its cancellation channel once,
\* without blocking; on a cancellation signal or a disconnected channel it
\* drops the job, sends nothing and goes back to waiting for the lock; only
\* when the channel is empty does it go on to execute the job, and only
\* jobs whose check found the channel empty are executed and sent.
CheckThenSkipOrExecute ==
  /\ [][\A w \in Workers :
          pc[w] = "check" /\ pc'[w] # "check" =>
            /\ sent' = sent
            /\ receiver' = receiver
            /\ IF TryRecv(channels[work[w].receiver]).tag = "Empty"
               THEN pc'[w] = "execute" /\ work'[w] = work[w]
               ELSE pc'[w] = "lock" /\ work'[w] = NoWork]_vars
  /\ [][\A w \in Workers :
          pc[w] = "execute" /\ pc'[w] = "lock" =>
            sent' = Append(sent, work[w].idx)]_vars
  /\ [](\A w \in Workers : pc[w] = "execute" => Checked(work[w].idx, "Empty"))
  /\ [](\A i \in SentIds : Checked(i, "Empty"))
  /\ [](\A i \in Ids : Cardinality({o \in observed : o.idx = i}) <= 1)

\* C14 witness: one job was executed and sent after its check found the
\* channel empty, another was skipped on a disconnected channel.
CheckThenSkipOrExecuteWitness ==
  \E i \in SentIds, j \in Ids :
     /\ Checked(i, "Empty")
     /\ Checked(j, "Disconnected")
     /\ j \notin SentIds

\* C15: every MeshReference waiting on the result channel of a live manager
\* carries an id that is a key of the pending map, so update never panics
\* on its unwrap, also for jobs cancelled after the worker's check.
ResultsArePending ==
  /\ mgr # "panicked"
  /\ mgr = "alive" =>
       \A k \in 1..Len(receiver) : receiver[k].idx \in DOMAIN pending

\* C15 witness: the result of a job cancelled after its check waits on the
\* result channel while another result has already been drained.
ResultsArePendingWitness ==
  /\ mgr = "alive"
  /\ \E k \in 1..Len(receiver) : receiver[k].idx \in killed
  /\ Len(world) > 0

\* C16 as stated: once the cancellation of a job has been signalled its
\* MeshReference is not sent and not inserted into the world afterwards.
CancelledNeverCompleted ==
  [][\A i \in killed :
        /\ i \notin SentIds => i \notin Range(sent')
        /\ i \notin DrainedIds =>
             i \notin {world'[k].chunk.idx : k \in 1..Len(world')}]_vars

\* C16: with Cancelled meaning skipped by a worker's cancellation check and
\* Completed meaning sent, no job is both, a skipped job stays skipped and
\* is never sent or inserted, a sent job stays sent, is sent once and only
\* sent jobs are inserted; a job is neither before one of the two happens.
SkippedOrSentForGood ==
  /\ [](\A i \in Ids : ~(Skipped(i) /\ i \in SentIds))
  /\ [](\A i \in Ids : Skipped(i) => i \notin DrainedIds)
  /\ [](\A i \in Ids : Skipped(i) \/ i \in SentIds => i \in DispatchedIds)
  /\ [](DrainedIds \subseteq SentIds)
  /\ [](\A i \in SentIds : Count(sent, i) = 1)
  /\ [][\A i \in Ids :
          /\ Skipped(i) => [idx |-> i, outcome |-> "Ok"] \in observed'
                           \/ [idx |-> i, outcome |-> "Disconnected"] \in observed'
          /\ i \in SentIds => i \in Range(sent')]_vars

\* C16 witness: a job cancelled after its check was sent and inserted, and
\* another job was skipped on its cancellation signal.
SkippedOrSentForGoodWitness ==
  /\ \E i \in killed : i \in DrainedIds
  /\ \E j \in killed : Checked(j, "Ok")

\* C18: a worker holds the lock on the shared job receiver only while it
\* dequeues: it has released it when it checks for cancellation, executes
\* and sends, so another worker of the pool may dequeue and execute a job
\* in the meantime.
LockOnlyWhileDequeuing ==
  /\ lock \in {Free} \cup Workers
  /\ \A w \in Workers :
       /\ lock = w <=> pc[w] = "recv"
       /\ pc[w] \in {"check", "execute"} => lock # w

\* C18 witness: while one worker executes a job, another has dequeued a
\* different job and executes it.
LockOnlyWhileDequeuingWitness ==
  \E w \in Workers, v \in Workers :
     /\ w # v
     /\ pc[w] = "execute"
     /\ pc[v] = "execute"
     /\ work[w].idx # work[v].idx

\* whether a sequence of ids is strictly increasing
Increasing(ids) == \A j \in 1..Len(ids), k \in 1..Len(ids) : j < k => ids[j] < ids[k]

\* C20: in the pool of one worker that ChunkManager::new builds, jobs are
\* executed one at a time in dispatch order: the ids sent on the result
\* channel, those waiting on it and those inserted into the world by
\* successive updates are strictly increasing, skipped jobs leaving gaps.
SingleWorkerInOrder ==
  size = PoolSize =>
    /\ Increasing(sent)
    /\ Increasing([k \in 1..Len(receiver) |-> receiver[k].idx])
    /\ Increasing([k \in 1..Len(world) |-> world[k].chunk.idx])
    /\ Increasing(dequeued)

\* C20 witness: the single worker completed two jobs and both were inserted.
SingleWorkerInOrderWitness ==
  /\ size = PoolSize
  /\ Len(world) >= 2

====
